---- MODULE Spec2Model ----
(***************************************************************************)
(* Employee registration service (src/server.js).                          *)
(*                                                                         *)
(* One Express process: a store connection opened at start-up, a GET /     *)
(* route, and an async POST /register handler that awaits three store      *)
(* operations (findOne by email, findOne by employeeId, save).  Requests    *)
(* interleave at those await points.  Strings are sequences of one-letter   *)
(* strings so that trimming, lowercasing, the e-mail pattern and the cast   *)
(* of a string to a date are computed, not assumed.                         *)
(***************************************************************************)
EXTENDS Integers, Sequences, FiniteSets, TLC

(* ------------------------------ bounds --------------------------------- *)

\* Number of HTTP requests the model lets arrive (request slots).
NumReqs == 2

\* The server clock runs from 0 to MaxClock.
MaxClock == 1

(* ------------------------------ strings -------------------------------- *)

SetMin(S) == CHOOSE x \in S : \A y \in S : x <= y
SetMax(S) == CHOOSE x \in S : \A y \in S : y <= x

\* The white space and the line terminators of the language, as far as a
\* string here can hold them: tab, line feed, vertical tab, form feed,
\* carriage return, space, no-break space, and the byte order mark (a
\* string here holds the characters up to U+00FF and U+FEFF, the grave
\* accent excepted).
WhiteSpace == {" ", "\t", "\n", "\r", "\f", "", " ", "﻿"}

NonSpace(s) == {i \in 1..Len(s) : s[i] \notin WhiteSpace}

\* String.prototype.trim, the schema's `trim: true` setter.
Trim(s) ==
    IF NonSpace(s) = {} THEN <<>>
    ELSE SubSeq(s, SetMin(NonSpace(s)), SetMax(NonSpace(s)))

UpperLetters ==
    <<"A", "B", "C", "D", "E", "F", "G", "H", "I", "J", "K", "L", "M",
      "N", "O", "P", "Q", "R", "S", "T", "U", "V", "W", "X", "Y", "Z">>

LowerLetters ==
    <<"a", "b", "c", "d", "e", "f", "g", "h", "i", "j", "k", "l", "m",
      "n", "o", "p", "q", "r", "s", "t", "u", "v", "w", "x", "y", "z">>

\* The capital letters from U+00C0 to U+00DE, and their small letters.
UpperLatin ==
    <<"À", "Á", "Â", "Ã", "Ä", "Å", "Æ", "Ç", "È", "É", "Ê", "Ë", "Ì",
      "Í", "Î", "Ï", "Ð", "Ñ", "Ò", "Ó", "Ô", "Õ", "Ö", "Ø", "Ù", "Ú",
      "Û", "Ü", "Ý", "Þ">>

LowerLatin ==
    <<"à", "á", "â", "ã", "ä", "å", "æ", "ç", "è", "é", "ê", "ë", "ì",
      "í", "î", "ï", "ð", "ñ", "ò", "ó", "ô", "õ", "ö", "ø", "ù", "ú",
      "û", "ü", "ý", "þ">>

\* The lower-case form of one character.
LowerChar(c) ==
    IF \E i \in 1..26 : UpperLetters[i] = c
    THEN LowerLetters[CHOOSE i \in 1..26 : UpperLetters[i] = c]
    ELSE IF \E i \in 1..Len(UpperLatin) : UpperLatin[i] = c
    THEN LowerLatin[CHOOSE i \in 1..Len(UpperLatin) : UpperLatin[i] = c]
    ELSE c

\* String.prototype.toLowerCase, the schema's `lowercase: true` setter.
ToLower(s) == [i \in 1..Len(s) |-> LowerChar(s[i])]

\* The email path's setters: trim and lowercase.
NormEmail(s) == ToLower(Trim(s))

\* /\S+@\S+\.\S+/ (unanchored): a character that is no white space right
\* before an "@", then one or more such characters, a ".", and one more.
MatchesEmail(s) ==
    \E i \in 1..Len(s) : \E j \in 1..Len(s) :
        /\ s[i] = "@"
        /\ s[j] = "."
        /\ i >= 2
        /\ s[i - 1] \notin WhiteSpace
        /\ j >= i + 2
        /\ \A k \in (i + 1)..(j - 1) : s[k] \notin WhiteSpace
        /\ j < Len(s)
        /\ s[j + 1] \notin WhiteSpace

(* -------------------------------- dates -------------------------------- *)
(* The Date cast of the schema, as the ODM and the engine compute it.  A    *)
(* string that Number() reads as 275761 or more, or as less than -271820,   *)
(* is a count of milliseconds; any other string goes to new Date(string):   *)
(* the ISO form first, [+-yy]yyyy[-MM[-DD]][THH:mm[:ss[.sss]][Z|+-hh:mm]],   *)
(* and the legacy rules for whatever that leaves.  A string without a zone  *)
(* (other than an ISO date alone, which is UTC) is local time: nothing in   *)
(* the program fixes the zone of the process, so the seconds that local     *)
(* time is east of UTC are a parameter of the cast.  A numeral is the       *)
(* double nearest to it.  A time value t, in milliseconds since the epoch,  *)
(* is written <<t \div 86400000, t % 86400000>>: the day, and the            *)
(* millisecond in the day.                                                  *)
(***************************************************************************)

Digits == {"0", "1", "2", "3", "4", "5", "6", "7", "8", "9"}

Letters == {UpperLetters[i] : i \in 1..26} \cup {LowerLetters[i] : i \in 1..26}

\* The characters from U+007F to U+00FF, the no-break space excepted.
HighChars ==
    { "", "", "", "", "", "", "", "", "", "", "", "", "",
      "", "", "", "", "", "", "", "", "", "", "", "", "",
      "", "", "", "", "", "", "", "¡", "¢", "£", "¤", "¥", "¦",
      "§", "¨", "©", "ª", "«", "¬", "­", "®", "¯", "°", "±", "²", "³",
      "´", "µ", "¶", "·", "¸", "¹", "º", "»", "¼", "½", "¾", "¿", "À",
      "Á", "Â", "Ã", "Ä", "Å", "Æ", "Ç", "È", "É", "Ê", "Ë", "Ì", "Í",
      "Î", "Ï", "Ð", "Ñ", "Ò", "Ó", "Ô", "Õ", "Ö", "×", "Ø", "Ù", "Ú",
      "Û", "Ü", "Ý", "Þ", "ß", "à", "á", "â", "ã", "ä", "å", "æ", "ç",
      "è", "é", "ê", "ë", "ì", "í", "î", "ï", "ð", "ñ", "ò", "ó", "ô",
      "õ", "ö", "÷", "ø", "ù", "ú", "û", "ü", "ý", "þ", "ÿ" }

\* The characters of a word: every character from "A" up that is no white
\* space.
WordChars == Letters \cup {"[", "\\", "]", "^", "_", "{", "|", "}", "~"} \cup HighChars

\* The value of a digit, hexadecimal digits included.
DigitVal(c) ==
    CASE c = "0" -> 0 [] c = "1" -> 1 [] c = "2" -> 2 [] c = "3" -> 3
      [] c = "4" -> 4 [] c = "5" -> 5 [] c = "6" -> 6 [] c = "7" -> 7
      [] c = "8" -> 8 [] c = "9" -> 9
      [] c \in {"a", "A"} -> 10 [] c \in {"b", "B"} -> 11
      [] c \in {"c", "C"} -> 12 [] c \in {"d", "D"} -> 13
      [] c \in {"e", "E"} -> 14 [] c \in {"f", "F"} -> 15

\* The time value of a number of milliseconds.
TimeValue(ms) == <<ms \div 86400000, ms % 86400000>>

\* The last index of the run of characters of class C that starts at i
\* (i - 1 when s[i] is not in C).
RunEnd(s, i, C) ==
    SetMin({j \in i..(Len(s) + 1) : j = Len(s) + 1 \/ s[j] \notin C}) - 1

RECURSIVE Numeral(_, _, _, _, _)
\* The digits s[k..j] read as a number; only nine digits are significant.
Numeral(s, k, j, n, count) ==
    IF k > j THEN n
    ELSE Numeral(s, k + 1, j,
                 IF count < 9 THEN 10 * n + DigitVal(s[k]) ELSE n, count + 1)

\* The digits s[i..j] read as a number, leading zeros skipped.
ReadUnsignedNumeral(s, i, j) ==
    Numeral(s, RunEnd(s, i, {"0"}) + 1, j, 0, 0)

RECURSIVE ParenEnd(_, _, _)
\* The index after the parenthesized text that starts at i.
ParenEnd(s, i, balance) ==
    IF i > Len(s) THEN i
    ELSE LET b == IF s[i] = ")" THEN balance - 1
                  ELSE IF s[i] = "(" THEN balance + 1 ELSE balance
         IN IF b > 0 THEN ParenEnd(s, i + 1, b) ELSE i + 1

Token(kind, n, len, word) == [kind |-> kind, n |-> n, len |-> len, word |-> word]

RECURSIVE Tokens(_, _)
\* The tokens of s from index i: numbers (value and length), the symbols
\* : - + . ), words (in lower case), blanks (one a character), and anything
\* else, a parenthesized text being one token.
Tokens(s, i) ==
    IF i > Len(s) THEN <<>>
    ELSE IF s[i] \in Digits
    THEN LET j == RunEnd(s, i, Digits)
         IN <<Token("num", ReadUnsignedNumeral(s, i, j), j - i + 1, <<>>)>>
               \o Tokens(s, j + 1)
    ELSE IF s[i] \in {":", "-", "+", ".", ")"}
    THEN <<Token(s[i], 0, 1, <<>>)>> \o Tokens(s, i + 1)
    ELSE IF s[i] \in WordChars
    THEN LET j == RunEnd(s, i, WordChars)
         IN <<Token("word", 0, j - i + 1, ToLower(SubSeq(s, i, j)))>>
               \o Tokens(s, j + 1)
    ELSE IF s[i] \in WhiteSpace
    THEN <<Token("blank", 0, 1, <<>>)>> \o Tokens(s, i + 1)
    ELSE IF s[i] = "("
    THEN <<Token("other", 0, 0, <<>>)>> \o Tokens(s, ParenEnd(s, i, 0))
    ELSE <<Token("other", 0, 0, <<>>)>> \o Tokens(s, i + 1)

MonthNames ==
    << <<"j", "a", "n">>, <<"f", "e", "b">>, <<"m", "a", "r">>, <<"a", "p", "r">>,
       <<"m", "a", "y">>, <<"j", "u", "n">>, <<"j", "u", "l">>, <<"a", "u", "g">>,
       <<"s", "e", "p">>, <<"o", "c", "t">>, <<"n", "o", "v">>, <<"d", "e", "c">> >>

\* The month a word names by its first three letters, 0 when none.
MonthOf(w) ==
    IF Len(w) >= 3 /\ \E m \in 1..12 : MonthNames[m] = SubSeq(w, 1, 3)
    THEN CHOOSE m \in 1..12 : MonthNames[m] = SubSeq(w, 1, 3)
    ELSE 0

\* The time zones that have a name, with their offset in hours.
ZoneNames ==
    { <<<<"u", "t">>, 0>>, <<<<"u", "t", "c">>, 0>>, <<<<"z">>, 0>>,
      <<<<"g", "m", "t">>, 0>>,
      <<<<"c", "d", "t">>, 0 - 5>>, <<<<"c", "s", "t">>, 0 - 6>>,
      <<<<"e", "d", "t">>, 0 - 4>>, <<<<"e", "s", "t">>, 0 - 5>>,
      <<<<"m", "d", "t">>, 0 - 6>>, <<<<"m", "s", "t">>, 0 - 7>>,
      <<<<"p", "d", "t">>, 0 - 7>>, <<<<"p", "s", "t">>, 0 - 8>> }

\* What a word means: a month (by prefix), am or pm, a time zone, the time
\* separator "t" (each by the whole word), or nothing.
Keyword(w) ==
    IF MonthOf(w) # 0 THEN [type |-> "month", value |-> MonthOf(w)]
    ELSE IF w = <<"a", "m">> THEN [type |-> "ampm", value |-> 0]
    ELSE IF w = <<"p", "m">> THEN [type |-> "ampm", value |-> 12]
    ELSE IF \E z \in ZoneNames : z[1] = w
    THEN [type |-> "zone", value |-> (CHOOSE z \in ZoneNames : z[1] = w)[2]]
    ELSE IF w = <<"t">> THEN [type |-> "separator", value |-> 0]
    ELSE [type |-> "none", value |-> 0]

IsMonth(x) == 1 <= x /\ x <= 12
IsDay(x) == 1 <= x /\ x <= 31
IsHour(x) == 0 <= x /\ x <= 23
IsHour12(x) == 0 <= x /\ x <= 12
IsMinute(x) == 0 <= x /\ x <= 59
IsSecond(x) == 0 <= x /\ x <= 59
IsMillisecond(x) == 0 <= x /\ x <= 999

KindAt(toks, k) == IF k <= Len(toks) THEN toks[k].kind ELSE "end"
IsFixedNumber(toks, k, len) == KindAt(toks, k) = "num" /\ toks[k].len = len
IsKeywordZ(toks, k) == KindAt(toks, k) = "word" /\ toks[k].word = <<"z">>

RECURSIVE Pow10(_)
Pow10(k) == IF k <= 0 THEN 1 ELSE 10 * Pow10(k - 1)

\* The milliseconds a number token gives as the fraction of a second.
ReadMilliseconds(t) ==
    IF t.len = 1 THEN t.n * 100
    ELSE IF t.len = 2 THEN t.n * 10
    ELSE IF t.len = 3 THEN t.n
    ELSE t.n \div Pow10((IF t.len > 9 THEN 9 ELSE t.len) - 3)

\* What the parser has read: the date components (at most three), the
\* named month (0: none), the time components (at most four), the am/pm
\* hour offset (-1: none), the zone's sign (0: none), hour and minute
\* (-1: none), whether a number was read, whether the string is ISO.
NothingRead ==
    [day |-> <<>>, named |-> 0, time |-> <<>>, hourOffset |-> 0 - 1,
     tzSign |-> 0, tzHour |-> 0 - 1, tzMinute |-> 0 - 1,
     read |-> FALSE, iso |-> FALSE]

NotADate == [ok |-> FALSE, st |-> NothingRead]

\* The time expects n as its next component.
TimeExpecting(time, n) ==
    \/ Len(time) = 1 /\ IsMinute(n)
    \/ Len(time) = 2 /\ IsSecond(n)
    \/ Len(time) = 3 /\ IsMillisecond(n)

\* The zone has an hour and expects n as its minute.
ZoneExpecting(st, n) ==
    st.tzHour # 0 - 1 /\ st.tzMinute = 0 - 1 /\ IsMinute(n)

\* The time with n as its last component read, the rest 0.
AddFinal(time, n) ==
    IF Len(time) >= 4 THEN time
    ELSE [k \in 1..4 |-> IF k <= Len(time) THEN time[k]
                         ELSE IF k = Len(time) + 1 THEN n ELSE 0]

RECURSIVE ParseLegacy(_, _, _)
\* The legacy rules from token i on.  A number is a time component when a
\* ":" follows or the time expects it, a zone minute when the zone expects
\* it, a date component otherwise.  A word is a month, am/pm after a time,
\* a zone after a number; any other word is allowed only before the first
\* number and not right against it.  A sign after a time or after UTC
\* starts an offset; otherwise a sign or ")" is not allowed after a number.
\* The rest is skipped.
ParseLegacy(toks, i, st) ==
    IF i > Len(toks) THEN [ok |-> TRUE, st |-> st]
    ELSE LET t == toks[i] IN
    IF t.kind = "num"
    THEN LET rd == [st EXCEPT !.read = TRUE] IN
         IF KindAt(toks, i + 1) = ":"
         THEN IF KindAt(toks, i + 2) = ":"
              THEN IF st.time # <<>> THEN NotADate
                   ELSE ParseLegacy(toks, i + 3, [rd EXCEPT !.time = <<t.n, 0>>])
              ELSE IF Len(st.time) = 4 THEN NotADate
              ELSE ParseLegacy(toks,
                               IF KindAt(toks, i + 2) = "." THEN i + 3 ELSE i + 2,
                               [rd EXCEPT !.time = Append(@, t.n)])
         ELSE LET dot == KindAt(toks, i + 1) = "."
                  a == IF dot THEN i + 2 ELSE i + 1
              IN IF dot /\ TimeExpecting(st.time, t.n)
                 THEN IF KindAt(toks, a) # "num" THEN NotADate
                      ELSE ParseLegacy(toks, a + 1,
                               [rd EXCEPT !.time = AddFinal(Append(@, t.n),
                                                            ReadMilliseconds(toks[a]))])
                 ELSE IF ZoneExpecting(st, t.n)
                 THEN ParseLegacy(toks, a, [rd EXCEPT !.tzMinute = t.n])
                 ELSE IF TimeExpecting(st.time, t.n)
                 THEN IF KindAt(toks, a) \in {"end", "blank", "+", "-"}
                           \/ IsKeywordZ(toks, a)
                      THEN ParseLegacy(toks, a, [rd EXCEPT !.time = AddFinal(@, t.n)])
                      ELSE NotADate
                 ELSE IF Len(st.day) = 3 THEN NotADate
                 ELSE ParseLegacy(toks, IF KindAt(toks, a) = "-" THEN a + 1 ELSE a,
                                  [rd EXCEPT !.day = Append(@, t.n)])
    ELSE IF t.kind = "word"
    THEN LET kw == Keyword(t.word) IN
         IF kw.type = "ampm" /\ st.time # <<>>
         THEN ParseLegacy(toks, i + 1, [st EXCEPT !.hourOffset = kw.value])
         ELSE IF kw.type = "month"
         THEN ParseLegacy(toks, IF KindAt(toks, i + 1) = "-" THEN i + 2 ELSE i + 1,
                          [st EXCEPT !.named = kw.value])
         ELSE IF kw.type = "zone" /\ st.read
         THEN ParseLegacy(toks, i + 1,
                          [st EXCEPT !.tzSign = IF kw.value < 0 THEN 0 - 1 ELSE 1,
                                     !.tzHour = IF kw.value < 0 THEN 0 - kw.value
                                                ELSE kw.value,
                                     !.tzMinute = 0])
         ELSE IF st.read \/ KindAt(toks, i + 1) = "num" THEN NotADate
         ELSE ParseLegacy(toks, i + 1, st)
    ELSE IF /\ t.kind \in {"+", "-"}
            /\ (st.tzHour = 0 /\ st.tzMinute = 0) \/ st.time # <<>>
    THEN LET num == KindAt(toks, i + 1) = "num"
             n == IF num THEN toks[i + 1].n ELSE 0
             len == IF num THEN toks[i + 1].len ELSE 0
             j == IF num THEN i + 2 ELSE i + 1
             sg == [st EXCEPT !.read = TRUE,
                              !.tzSign = IF t.kind = "-" THEN 0 - 1 ELSE 1]
         IN IF KindAt(toks, j) = ":"
            THEN ParseLegacy(toks, j, [sg EXCEPT !.tzHour = n, !.tzMinute = 0 - 1])
            ELSE IF len \in {1, 2}
            THEN ParseLegacy(toks, j, [sg EXCEPT !.tzHour = n, !.tzMinute = 0])
            ELSE IF len \in {3, 4}
            THEN ParseLegacy(toks, j, [sg EXCEPT !.tzHour = n \div 100,
                                                 !.tzMinute = n % 100])
            ELSE NotADate
    ELSE IF t.kind \in {"+", "-", ")"} /\ st.read THEN NotADate
    ELSE ParseLegacy(toks, i + 1, st)

\* The ISO time from token i on, HH:mm[:ss[.sss]]: the components, and the
\* index of the token after them.  24:00:00.000 is the only time of hour 24.
ParseES5Time(toks, i) ==
    LET bad == [ok |-> FALSE, time |-> <<>>, next |-> i]
        is24 == toks[i].n = 24
        part(k, max) ==
            /\ IsFixedNumber(toks, k, 2)
            /\ toks[k].n <= max
            /\ is24 => toks[k].n = 0
    IN IF ~(IsFixedNumber(toks, i, 2) /\ toks[i].n <= 24) THEN bad
       ELSE IF KindAt(toks, i + 1) # ":" \/ ~part(i + 2, 59) THEN bad
       ELSE IF KindAt(toks, i + 3) # ":"
       THEN [ok |-> TRUE, time |-> <<toks[i].n, toks[i + 2].n>>, next |-> i + 3]
       ELSE IF ~part(i + 4, 59) THEN bad
       ELSE IF KindAt(toks, i + 5) # "."
       THEN [ok |-> TRUE, time |-> <<toks[i].n, toks[i + 2].n, toks[i + 4].n>>,
             next |-> i + 5]
       ELSE IF KindAt(toks, i + 6) # "num" \/ (is24 /\ toks[i + 6].n > 0) THEN bad
       ELSE [ok |-> TRUE,
             time |-> <<toks[i].n, toks[i + 2].n, toks[i + 4].n,
                        ReadMilliseconds(toks[i + 6])>>,
             next |-> i + 7]

\* The ISO zone from token i on, Z or +-hh:mm or +-hhmm, or none.
ParseES5Zone(toks, i) ==
    LET bad == [ok |-> FALSE, sign |-> 0, hour |-> 0 - 1, minute |-> 0 - 1, next |-> i]
        sign == IF KindAt(toks, i) = "+" THEN 1 ELSE 0 - 1
    IN IF IsKeywordZ(toks, i)
       THEN [ok |-> TRUE, sign |-> 1, hour |-> 0, minute |-> 0, next |-> i + 1]
       ELSE IF KindAt(toks, i) \notin {"+", "-"}
       THEN [ok |-> TRUE, sign |-> 0, hour |-> 0 - 1, minute |-> 0 - 1, next |-> i]
       ELSE IF IsFixedNumber(toks, i + 1, 4)
       THEN IF IsHour(toks[i + 1].n \div 100) /\ IsMinute(toks[i + 1].n % 100)
            THEN [ok |-> TRUE, sign |-> sign, hour |-> toks[i + 1].n \div 100,
                  minute |-> toks[i + 1].n % 100, next |-> i + 2]
            ELSE bad
       ELSE IF /\ IsFixedNumber(toks, i + 1, 2) /\ IsHour(toks[i + 1].n)
               /\ KindAt(toks, i + 2) = ":"
               /\ IsFixedNumber(toks, i + 3, 2) /\ IsMinute(toks[i + 3].n)
       THEN [ok |-> TRUE, sign |-> sign, hour |-> toks[i + 1].n,
             minute |-> toks[i + 3].n, next |-> i + 4]
       ELSE bad

\* An ISO date and time with its zone, which ends the string.
ParseES5Zoned(toks, st, tm, tz) ==
    IF ~tz.ok \/ tz.next <= Len(toks) THEN NotADate
    ELSE [ok |-> TRUE,
          st |-> [st EXCEPT !.iso = TRUE, !.time = tm.time,
                            !.tzSign = tz.sign, !.tzHour = tz.hour,
                            !.tzMinute = tz.minute]]

\* An ISO date and time: the zone follows the time.
ParseES5Timed(toks, st, tm) ==
    IF ~tm.ok THEN NotADate
    ELSE ParseES5Zoned(toks, st, tm, ParseES5Zone(toks, tm.next))

\* After the ISO date, read into st: the end of the string (a date in UTC),
\* or "T" and a time and a zone and then the end; whatever else follows
\* goes to the legacy rules.
ParseES5End(toks, i, st) ==
    IF i > Len(toks)
    THEN [ok |-> TRUE,
          st |-> [st EXCEPT !.iso = TRUE, !.tzSign = 1, !.tzHour = 0, !.tzMinute = 0]]
    ELSE IF ~(KindAt(toks, i) = "word" /\ toks[i].word = <<"t">>)
    THEN ParseLegacy(toks, i, st)
    ELSE ParseES5Timed(toks, st, ParseES5Time(toks, i + 1))

ParseES5Rest(toks, i, comps) ==
    ParseES5End(toks, i, [NothingRead EXCEPT !.day = comps, !.read = TRUE])

\* After the ISO year and month: an optional -DD.
ParseES5Day(toks, i, comps) ==
    IF KindAt(toks, i) # "-" THEN ParseES5Rest(toks, i, comps)
    ELSE IF IsFixedNumber(toks, i + 1, 2) /\ IsDay(toks[i + 1].n)
    THEN ParseES5Rest(toks, i + 2, Append(comps, toks[i + 1].n))
    ELSE ParseLegacy(toks, i + 1, [NothingRead EXCEPT !.day = comps, !.read = TRUE])

\* After the ISO year: an optional -MM.
ParseES5Month(toks, i, comps) ==
    IF KindAt(toks, i) # "-" THEN ParseES5Rest(toks, i, comps)
    ELSE IF IsFixedNumber(toks, i + 1, 2) /\ IsMonth(toks[i + 1].n)
    THEN ParseES5Day(toks, i + 2, Append(comps, toks[i + 1].n))
    ELSE ParseLegacy(toks, i + 1, [NothingRead EXCEPT !.day = comps, !.read = TRUE])

\* The parse of a date string: the ISO form as far as it goes (a year of
\* four digits, or of six digits with a sign, -000000 excepted), then the
\* legacy rules.
ParseDate(toks) ==
    IF KindAt(toks, 1) \in {"-", "+"}
    THEN IF ~IsFixedNumber(toks, 2, 6) THEN ParseLegacy(toks, 1, NothingRead)
         ELSE IF toks[1].kind = "-" /\ toks[2].n = 0
         THEN ParseLegacy(toks, 3, NothingRead)
         ELSE ParseES5Month(toks, 3,
                            <<IF toks[1].kind = "-" THEN 0 - toks[2].n ELSE toks[2].n>>)
    ELSE IF IsFixedNumber(toks, 1, 4) THEN ParseES5Month(toks, 2, <<toks[1].n>>)
    ELSE ParseLegacy(toks, 1, NothingRead)

\* The number of days from 1970-01-01 to the first day of month m of year y.
DaysFromCivil(y, m) ==
    LET yy == IF m <= 2 THEN y - 1 ELSE y
        era == yy \div 400
        yoe == yy - era * 400
        doy == ((153 * (IF m > 2 THEN m - 3 ELSE m + 9)) + 2) \div 5
        doe == (yoe * 365) + (yoe \div 4) - (yoe \div 100) + doy
    IN era * 146097 + doe - 719468

\* Year, month and day from the components read: missing components are 1;
\* an ISO date, or a first component that is no day of the month, reads
\* year-month-day, otherwise month-day-year; with a named month the
\* numbers are day and year; a legacy year below 100 is in 1950..2049.
YearMonthDay(st) ==
    LET c == [k \in 1..3 |-> IF k <= Len(st.day) THEN st.day[k] ELSE 1]
        ymd == IF st.named = 0
               THEN IF st.iso \/ ~IsDay(c[1]) THEN <<c[1], c[2], c[3]>>
                    ELSE <<c[3], c[1], c[2]>>
               ELSE IF ~IsDay(c[1]) THEN <<c[1], st.named, c[2]>>
                    ELSE <<c[2], st.named, c[1]>>
        year == IF st.iso THEN ymd[1]
                ELSE IF 0 <= ymd[1] /\ ymd[1] <= 49 THEN ymd[1] + 2000
                ELSE IF 50 <= ymd[1] /\ ymd[1] <= 99 THEN ymd[1] + 1900
                ELSE ymd[1]
    IN <<year, ymd[2], ymd[3]>>

\* Hour, minute, second and millisecond from the components read: missing
\* components are 0, and am/pm moves an hour of 0..12.
HourMinuteSecond(st) ==
    LET c == [k \in 1..4 |-> IF k <= Len(st.time) THEN st.time[k] ELSE 0]
    IN IF st.hourOffset = 0 - 1 THEN c
       ELSE [c EXCEPT ![1] = (c[1] % 12) + st.hourOffset]

\* The time of day is one: 00:00:00.000 to 23:59:59.999, or 24:00:00.000.
IsTimeOfDay(st) ==
    LET c == HourMinuteSecond(st) IN
    /\ st.hourOffset # 0 - 1 => IsHour12(st.time[1])
    /\ \/ IsHour(c[1]) /\ IsMinute(c[2]) /\ IsSecond(c[3]) /\ IsMillisecond(c[4])
       \/ c = <<24, 0, 0, 0>>

\* The zone's offset in seconds without its sign, computed in 32 bits:
\* the high and the low 16 bits.
ZoneSeconds(st) ==
    LET hour == IF st.tzHour = 0 - 1 THEN 0 ELSE st.tzHour
        minute == IF st.tzMinute = 0 - 1 THEN 0 ELSE st.tzMinute
        low == ((hour % 65536) * 3600) + (minute * 60)
    IN <<(((hour \div 65536) * 3600) + (low \div 65536)) % 65536, low % 65536>>

NoDate == [ok |-> FALSE, value |-> <<0, 0>>]

\* The time value of a day and a count of milliseconds from its start, when
\* it is at most 100000000 days from the epoch.
DateOfDay(day, ms) ==
    IF \/ day + (ms \div 86400000) > 100000000
       \/ day + (ms \div 86400000) = 100000000 /\ ms % 86400000 # 0
       \/ day + (ms \div 86400000) < 0 - 100000000
    THEN NoDate
    ELSE [ok |-> TRUE, value |-> <<day + (ms \div 86400000), ms % 86400000>>]

\* The time value of year-month-day d at time of day t, off seconds east.
DateOfFields(d, t, off) ==
    IF d[1] > 1000000 \/ d[1] < 0 - 1000000 THEN NoDate
    ELSE DateOfDay(DaysFromCivil(d[1], d[2]) + d[3] - 1 - (off \div 86400),
                   ((t[1] * 60 + t[2]) * 60 + t[3]) * 1000 + t[4]
                      - ((off % 86400) * 1000))

\* The date the zone z (seconds, in 16-bit halves) gives to what was read;
\* without a zone it is local time, local seconds east of UTC.
DateOfZone(st, z, local) ==
    IF st.tzSign # 0 /\ z[1] >= 32768 THEN NoDate
    ELSE DateOfFields(YearMonthDay(st), HourMinuteSecond(st),
                      IF st.tzSign = 0 THEN local
                      ELSE st.tzSign * (z[1] * 65536 + z[2]))

\* The date of a parse: there is a date component, month, day and time are
\* in range, and so is the result.
DateOfParse(p, local) ==
    IF ~p.ok \/ p.st.day = <<>> THEN NoDate
    ELSE IF \/ ~IsMonth(YearMonthDay(p.st)[2])
            \/ ~IsDay(YearMonthDay(p.st)[3])
            \/ ~IsTimeOfDay(p.st)
    THEN NoDate
    ELSE DateOfZone(p.st, ZoneSeconds(p.st), local)

\* new Date(string) in a process whose zone is local seconds east of UTC at
\* the time the string names: whether the string is a date, and its time
\* value.
DateParse(s, local) == DateOfParse(ParseDate(Tokens(s, 1)), local)

RECURSIVE DivideByDay(_, _, _, _, _)
\* The number of digit values d[k..] in the given base divided by the
\* milliseconds of a day, from the quotient and remainder so far; the
\* quotient stops growing when it is past the last day a date can have.
DivideByDay(d, k, base, quot, rem) ==
    IF k > Len(d) THEN <<quot, rem>>
    ELSE DivideByDay(d, k + 1, base,
                     IF (quot * base) + ((rem * base + d[k]) \div 86400000) > 100000000
                     THEN 100000001
                     ELSE (quot * base) + ((rem * base + d[k]) \div 86400000),
                     (rem * base + d[k]) % 86400000)

\* The digits that a whole number of at most 100000000 days has at most,
\* in each base.
MaxDigits(base) ==
    CASE base = 2 -> 53
      [] base = 8 -> 18
      [] base = 16 -> 14
      [] OTHER -> 16

\* The place of the first digit of d that is not 0.
FirstDigit(d) == SetMin({i \in 1..Len(d) : d[i] # "0"} \cup {Len(d) + 1})

\* The binary digit d[p] from place z on, 0 before it.
Bit(d, z, p) == IF p >= z THEN DigitVal(d[p]) ELSE 0

\* The values of the digits d[z..]; binary digits are taken four at a time,
\* from the right, as digits of base 16.
DigitValues(d, z, base) ==
    IF base # 2 THEN [i \in 1..(Len(d) - z + 1) |-> DigitVal(d[z + i - 1])]
    ELSE [i \in 1..((Len(d) - z + 4) \div 4) |->
             (8 * Bit(d, z, Len(d) - (4 * (((Len(d) - z + 4) \div 4) - i)) - 3))
             + (4 * Bit(d, z, Len(d) - (4 * (((Len(d) - z + 4) \div 4) - i)) - 2))
             + (2 * Bit(d, z, Len(d) - (4 * (((Len(d) - z + 4) \div 4) - i)) - 1))
             + Bit(d, z, Len(d) - (4 * (((Len(d) - z + 4) \div 4) - i)))]

\* The whole number of digits d in the given base, divided by the
\* milliseconds of a day.
WholeOf(d, base) ==
    IF Len(d) - FirstDigit(d) + 1 > MaxDigits(base) THEN <<100000001, 0>>
    ELSE DivideByDay(DigitValues(d, FirstDigit(d), base), 1,
                     IF base = 2 THEN 16 ELSE base, 0, 0)

\* A whole number as <<quotient, remainder>> by the milliseconds of a day:
\* the next whole number, and the order.
NextWhole(w) == <<w[1] + ((w[2] + 1) \div 86400000), (w[2] + 1) % 86400000>>

WholeLeq(v, w) == v[1] < w[1] \/ (v[1] = w[1] /\ v[2] <= w[2])

\* 2^0 to 2^52, each divided by the milliseconds of a day.
PowersOfTwo ==
    <<
       <<0, 1>>, <<0, 2>>, <<0, 4>>, <<0, 8>>, <<0, 16>>, <<0, 32>>,
       <<0, 64>>, <<0, 128>>, <<0, 256>>, <<0, 512>>, <<0, 1024>>,
       <<0, 2048>>, <<0, 4096>>, <<0, 8192>>, <<0, 16384>>, <<0, 32768>>,
       <<0, 65536>>, <<0, 131072>>, <<0, 262144>>, <<0, 524288>>,
       <<0, 1048576>>, <<0, 2097152>>, <<0, 4194304>>, <<0, 8388608>>,
       <<0, 16777216>>, <<0, 33554432>>, <<0, 67108864>>, <<1, 47817728>>,
       <<3, 9235456>>, <<6, 18470912>>, <<12, 36941824>>, <<24, 73883648>>,
       <<49, 61367296>>, <<99, 36334592>>, <<198, 72669184>>,
       <<397, 58938368>>, <<795, 31476736>>, <<1590, 62953472>>,
       <<3181, 39506944>>, <<6362, 79013888>>, <<12725, 71627776>>,
       <<25451, 56855552>>, <<50903, 27311104>>, <<101806, 54622208>>,
       <<203613, 22844416>>, <<407226, 45688832>>, <<814453, 4977664>>,
       <<1628906, 9955328>>, <<3257812, 19910656>>, <<6515624, 39821312>>,
       <<13031248, 79642624>>, <<26062497, 72885248>>,
       <<52124995, 59370496>>
    >>

\* The binary exponent of a whole number from 1 to 2^53 - 1.
BinaryExponent(w) ==
    SetMax({k \in 0..52 : WholeLeq(PowersOfTwo[k + 1], w)})

\* A decimal fraction is the sequence of its digits after the point.
\* 5^1 to 5^54 in decimal digits: 2^-j is 5^j / 10^j.
PowersOfFive ==
    <<
       <<5>>, <<2, 5>>, <<1, 2, 5>>, <<6, 2, 5>>, <<3, 1, 2, 5>>,
       <<1, 5, 6, 2, 5>>, <<7, 8, 1, 2, 5>>, <<3, 9, 0, 6, 2, 5>>,
       <<1, 9, 5, 3, 1, 2, 5>>, <<9, 7, 6, 5, 6, 2, 5>>,
       <<4, 8, 8, 2, 8, 1, 2, 5>>, <<2, 4, 4, 1, 4, 0, 6, 2, 5>>,
       <<1, 2, 2, 0, 7, 0, 3, 1, 2, 5>>, <<6, 1, 0, 3, 5, 1, 5, 6, 2, 5>>,
       <<3, 0, 5, 1, 7, 5, 7, 8, 1, 2, 5>>,
       <<1, 5, 2, 5, 8, 7, 8, 9, 0, 6, 2, 5>>,
       <<7, 6, 2, 9, 3, 9, 4, 5, 3, 1, 2, 5>>,
       <<3, 8, 1, 4, 6, 9, 7, 2, 6, 5, 6, 2, 5>>,
       <<1, 9, 0, 7, 3, 4, 8, 6, 3, 2, 8, 1, 2, 5>>,
       <<9, 5, 3, 6, 7, 4, 3, 1, 6, 4, 0, 6, 2, 5>>,
       <<4, 7, 6, 8, 3, 7, 1, 5, 8, 2, 0, 3, 1, 2, 5>>,
       <<2, 3, 8, 4, 1, 8, 5, 7, 9, 1, 0, 1, 5, 6, 2, 5>>,
       <<1, 1, 9, 2, 0, 9, 2, 8, 9, 5, 5, 0, 7, 8, 1, 2, 5>>,
       <<5, 9, 6, 0, 4, 6, 4, 4, 7, 7, 5, 3, 9, 0, 6, 2, 5>>,
       <<2, 9, 8, 0, 2, 3, 2, 2, 3, 8, 7, 6, 9, 5, 3, 1, 2, 5>>,
       <<1, 4, 9, 0, 1, 1, 6, 1, 1, 9, 3, 8, 4, 7, 6, 5, 6, 2, 5>>,
       <<7, 4, 5, 0, 5, 8, 0, 5, 9, 6, 9, 2, 3, 8, 2, 8, 1, 2, 5>>,
       <<3, 7, 2, 5, 2, 9, 0, 2, 9, 8, 4, 6, 1, 9, 1, 4, 0, 6, 2, 5>>,
       <<1, 8, 6, 2, 6, 4, 5, 1, 4, 9, 2, 3, 0, 9, 5, 7, 0, 3, 1, 2, 5>>,
       <<9, 3, 1, 3, 2, 2, 5, 7, 4, 6, 1, 5, 4, 7, 8, 5, 1, 5, 6, 2, 5>>,
       <<4, 6, 5, 6, 6, 1, 2, 8, 7, 3, 0, 7, 7, 3, 9, 2, 5, 7, 8, 1, 2, 5>>,
       <<2, 3, 2, 8, 3, 0, 6, 4, 3, 6, 5, 3, 8, 6, 9, 6, 2, 8, 9, 0, 6, 2, 5>>,
       <<1, 1, 6, 4, 1, 5, 3, 2, 1, 8, 2, 6, 9, 3, 4, 8, 1, 4, 4, 5, 3, 1, 2, 5>>,
       <<5, 8, 2, 0, 7, 6, 6, 0, 9, 1, 3, 4, 6, 7, 4, 0, 7, 2, 2, 6, 5, 6, 2, 5>>,
       <<2, 9, 1, 0, 3, 8, 3, 0, 4, 5, 6, 7, 3, 3, 7, 0, 3, 6, 1, 3, 2, 8, 1, 2, 5>>,
       <<1, 4, 5, 5, 1, 9, 1, 5, 2, 2, 8, 3, 6, 6, 8, 5, 1, 8, 0, 6, 6, 4, 0, 6, 2, 5>>,
       <<7, 2, 7, 5, 9, 5, 7, 6, 1, 4, 1, 8, 3, 4, 2, 5, 9, 0, 3, 3, 2, 0, 3, 1, 2, 5>>,
       <<3, 6, 3, 7, 9, 7, 8, 8, 0, 7, 0, 9, 1, 7, 1, 2, 9, 5, 1, 6, 6, 0, 1, 5, 6, 2, 5>>,
       <<1, 8, 1, 8, 9, 8, 9, 4, 0, 3, 5, 4, 5, 8, 5, 6, 4, 7, 5, 8, 3, 0, 0, 7, 8, 1, 2, 5>>,
       <<9, 0, 9, 4, 9, 4, 7, 0, 1, 7, 7, 2, 9, 2, 8, 2, 3, 7, 9, 1, 5, 0, 3, 9, 0, 6, 2, 5>>,
       <<4, 5, 4, 7, 4, 7, 3, 5, 0, 8, 8, 6, 4, 6, 4, 1, 1, 8, 9, 5, 7, 5, 1, 9, 5, 3, 1, 2, 5>>,
       <<2, 2, 7, 3, 7, 3, 6, 7, 5, 4, 4, 3, 2, 3, 2, 0, 5, 9, 4, 7, 8, 7, 5, 9, 7, 6, 5, 6, 2, 5>>,
       <<1, 1, 3, 6, 8, 6, 8, 3, 7, 7, 2, 1, 6, 1, 6, 0, 2, 9, 7, 3, 9, 3, 7, 9, 8, 8, 2, 8, 1, 2, 5>>,
       <<5, 6, 8, 4, 3, 4, 1, 8, 8, 6, 0, 8, 0, 8, 0, 1, 4, 8, 6, 9, 6, 8, 9, 9, 4, 1, 4, 0, 6, 2, 5>>,
       <<2, 8, 4, 2, 1, 7, 0, 9, 4, 3, 0, 4, 0, 4, 0, 0, 7, 4, 3, 4, 8, 4, 4, 9, 7, 0, 7, 0, 3, 1, 2, 5>>,
       <<1, 4, 2, 1, 0, 8, 5, 4, 7, 1, 5, 2, 0, 2, 0, 0, 3, 7, 1, 7, 4, 2, 2, 4, 8, 5, 3, 5, 1, 5, 6, 2, 5>>,
       <<7, 1, 0, 5, 4, 2, 7, 3, 5, 7, 6, 0, 1, 0, 0, 1, 8, 5, 8, 7, 1, 1, 2, 4, 2, 6, 7, 5, 7, 8, 1, 2, 5>>,
       <<3, 5, 5, 2, 7, 1, 3, 6, 7, 8, 8, 0, 0, 5, 0, 0, 9, 2, 9, 3, 5, 5, 6, 2, 1, 3, 3, 7, 8, 9, 0, 6, 2, 5>>,
       <<1, 7, 7, 6, 3, 5, 6, 8, 3, 9, 4, 0, 0, 2, 5, 0, 4, 6, 4, 6, 7, 7, 8, 1, 0, 6, 6, 8, 9, 4, 5, 3, 1, 2, 5>>,
       <<8, 8, 8, 1, 7, 8, 4, 1, 9, 7, 0, 0, 1, 2, 5, 2, 3, 2, 3, 3, 8, 9, 0, 5, 3, 3, 4, 4, 7, 2, 6, 5, 6, 2, 5>>,
       <<4, 4, 4, 0, 8, 9, 2, 0, 9, 8, 5, 0, 0, 6, 2, 6, 1, 6, 1, 6, 9, 4, 5, 2, 6, 6, 7, 2, 3, 6, 3, 2, 8, 1, 2, 5>>,
       <<2, 2, 2, 0, 4, 4, 6, 0, 4, 9, 2, 5, 0, 3, 1, 3, 0, 8, 0, 8, 4, 7, 2, 6, 3, 3, 3, 6, 1, 8, 1, 6, 4, 0, 6, 2, 5>>,
       <<1, 1, 1, 0, 2, 2, 3, 0, 2, 4, 6, 2, 5, 1, 5, 6, 5, 4, 0, 4, 2, 3, 6, 3, 1, 6, 6, 8, 0, 9, 0, 8, 2, 0, 3, 1, 2, 5>>,
       <<5, 5, 5, 1, 1, 1, 5, 1, 2, 3, 1, 2, 5, 7, 8, 2, 7, 0, 2, 1, 1, 8, 1, 5, 8, 3, 4, 0, 4, 5, 4, 1, 0, 1, 5, 6, 2, 5>>
    >>

\* 5^1075 in decimal digits: 2^-1075 is these 752 digits after 323 zeros.
FiveTo1075 ==
    <<
       2, 4, 7, 0, 3, 2, 8, 2, 2, 9, 2, 0, 6, 2, 3, 2, 7, 2, 0, 8, 8, 2, 8,
       4, 3, 9, 6, 4, 3, 4, 1, 1, 0, 6, 8, 6, 1, 8, 2, 5, 2, 9, 9, 0, 1, 3,
       0, 7, 1, 6, 2, 3, 8, 2, 2, 1, 2, 7, 9, 2, 8, 4, 1, 2, 5, 0, 3, 3, 7,
       7, 5, 3, 6, 3, 5, 1, 0, 4, 3, 7, 5, 9, 3, 2, 6, 4, 9, 9, 1, 8, 1, 8,
       0, 8, 1, 7, 9, 9, 6, 1, 8, 9, 8, 9, 8, 2, 8, 2, 3, 4, 7, 7, 2, 2, 8,
       5, 8, 8, 6, 5, 4, 6, 3, 3, 2, 8, 3, 5, 5, 1, 7, 7, 9, 6, 9, 8, 9, 8,
       1, 9, 9, 3, 8, 7, 3, 9, 8, 0, 0, 5, 3, 9, 0, 9, 3, 9, 0, 6, 3, 1, 5,
       0, 3, 5, 6, 5, 9, 5, 1, 5, 5, 7, 0, 2, 2, 6, 3, 9, 2, 2, 9, 0, 8, 5,
       8, 3, 9, 2, 4, 4, 9, 1, 0, 5, 1, 8, 4, 4, 3, 5, 9, 3, 1, 8, 0, 2, 8,
       4, 9, 9, 3, 6, 5, 3, 6, 1, 5, 2, 5, 0, 0, 3, 1, 9, 3, 7, 0, 4, 5, 7,
       6, 7, 8, 2, 4, 9, 2, 1, 9, 3, 6, 5, 6, 2, 3, 6, 6, 9, 8, 6, 3, 6, 5,
       8, 4, 8, 0, 7, 5, 7, 0, 0, 1, 5, 8, 5, 7, 6, 9, 2, 6, 9, 9, 0, 3, 7,
       0, 6, 3, 1, 1, 9, 2, 8, 2, 7, 9, 5, 5, 8, 5, 5, 1, 3, 3, 2, 9, 2, 7,
       8, 3, 4, 3, 3, 8, 4, 0, 9, 3, 5, 1, 9, 7, 8, 0, 1, 5, 5, 3, 1, 2, 4,
       6, 5, 9, 7, 2, 6, 3, 5, 7, 9, 5, 7, 4, 6, 2, 2, 7, 6, 6, 4, 6, 5, 2,
       7, 2, 8, 2, 7, 2, 2, 0, 0, 5, 6, 3, 7, 4, 0, 0, 6, 4, 8, 5, 4, 9, 9,
       9, 7, 7, 0, 9, 6, 5, 9, 9, 4, 7, 0, 4, 5, 4, 0, 2, 0, 8, 2, 8, 1, 6,
       6, 2, 2, 6, 2, 3, 7, 8, 5, 7, 3, 9, 3, 4, 5, 0, 7, 3, 6, 3, 3, 9, 0,
       0, 7, 9, 6, 7, 7, 6, 1, 9, 3, 0, 5, 7, 7, 5, 0, 6, 7, 4, 0, 1, 7, 6,
       3, 2, 4, 6, 7, 3, 6, 0, 0, 9, 6, 8, 9, 5, 1, 3, 4, 0, 5, 3, 5, 5, 3,
       7, 4, 5, 8, 5, 1, 6, 6, 6, 1, 1, 3, 4, 2, 2, 3, 7, 6, 6, 6, 7, 8, 6,
       0, 4, 1, 6, 2, 1, 5, 9, 6, 8, 0, 4, 6, 1, 9, 1, 4, 4, 6, 7, 2, 9, 1,
       8, 4, 0, 3, 0, 0, 5, 3, 0, 0, 5, 7, 5, 3, 0, 8, 4, 9, 0, 4, 8, 7, 6,
       5, 3, 9, 1, 7, 1, 1, 3, 8, 6, 5, 9, 1, 6, 4, 6, 2, 3, 9, 5, 2, 4, 9,
       1, 2, 6, 2, 3, 6, 5, 3, 8, 8, 1, 8, 7, 9, 6, 3, 6, 2, 3, 9, 3, 7, 3,
       2, 8, 0, 4, 2, 3, 8, 9, 1, 0, 1, 8, 6, 7, 2, 3, 4, 8, 4, 9, 7, 6, 6,
       8, 2, 3, 5, 0, 8, 9, 8, 6, 3, 3, 8, 8, 5, 8, 7, 9, 2, 5, 6, 2, 8, 3,
       0, 2, 7, 5, 5, 9, 9, 5, 6, 5, 7, 5, 2, 4, 4, 5, 5, 5, 0, 7, 2, 5, 5,
       1, 8, 9, 3, 1, 3, 6, 9, 0, 8, 3, 6, 2, 5, 4, 7, 7, 9, 1, 8, 6, 9, 4,
       8, 6, 6, 7, 9, 9, 4, 9, 6, 8, 3, 2, 4, 0, 4, 9, 7, 0, 5, 8, 2, 1, 0,
       2, 8, 5, 1, 3, 1, 8, 5, 4, 5, 1, 3, 9, 6, 2, 1, 3, 8, 3, 7, 7, 2, 2,
       8, 2, 6, 1, 4, 5, 4, 3, 7, 6, 9, 3, 4, 1, 2, 5, 3, 2, 0, 9, 8, 5, 9,
       1, 3, 2, 7, 6, 6, 7, 2, 3, 6, 3, 2, 8, 1, 2, 5
    >>

\* The fraction 2^-j, j from 1 to 54, and the fraction 2^-1075.
PowerOfHalf(j) ==
    [i \in 1..j |->
        IF i <= j - Len(PowersOfFive[j]) THEN 0
        ELSE PowersOfFive[j][i - (j - Len(PowersOfFive[j]))]]

LeastDouble == [i \in 1..1075 |-> IF i <= 323 THEN 0 ELSE FiveTo1075[i - 323]]

\* 1 - f for a fraction f whose last digit is not 0.
Complement(f) == [i \in 1..Len(f) |-> IF i = Len(f) THEN 10 - f[i] ELSE 9 - f[i]]

FractionDigit(f, i) == IF i <= Len(f) THEN f[i] ELSE 0

\* f > g for fractions.
FractionGreater(f, g) ==
    \E i \in 1..(Len(f) + Len(g)) :
        /\ FractionDigit(f, i) > FractionDigit(g, i)
        /\ \A k \in 1..(i - 1) : FractionDigit(f, k) = FractionDigit(g, k)

FractionGeq(f, g) == ~FractionGreater(g, f)

\* The double nearest to the number of whole part w and fraction f, ties
\* to even, as its whole part and whether it has a fraction.  Below 2^52
\* the doubles from 2^k on are 2^(k-52) apart, so the number goes up to the
\* next whole number from 1 - 2^(k-53) on, and down to w up to 2^(k-53);
\* from 2^52 on the doubles are the whole numbers; below 1 the number goes
\* up to 1 from 1 - 2^-54 on and down to 0 up to 2^-1075.
NearestDouble(w, f) ==
    IF w[1] > 100000000 THEN [whole |-> w, fraction |-> FALSE]
    ELSE IF w = <<0, 0>>
    THEN IF FractionGeq(f, Complement(PowerOfHalf(54)))
         THEN [whole |-> <<0, 1>>, fraction |-> FALSE]
         ELSE [whole |-> w,
               fraction |->
                   \/ \E i \in 1..323 : FractionDigit(f, i) # 0
                   \/ /\ FractionDigit(f, 324) # 0
                      /\ FractionGreater(f, LeastDouble)]
    ELSE IF BinaryExponent(w) = 52
    THEN IF \/ FractionGreater(f, <<5>>)
            \/ FractionGeq(f, <<5>>) /\ w[2] % 2 = 1
         THEN [whole |-> NextWhole(w), fraction |-> FALSE]
         ELSE [whole |-> w, fraction |-> FALSE]
    ELSE IF FractionGeq(f, Complement(PowerOfHalf(53 - BinaryExponent(w))))
    THEN [whole |-> NextWhole(w), fraction |-> FALSE]
    ELSE [whole |-> w,
          fraction |-> FractionGreater(f, PowerOfHalf(53 - BinaryExponent(w)))]

HexDigits == Digits \cup {"a", "b", "c", "d", "e", "f", "A", "B", "C", "D", "E", "F"}

\* The base that the prefix of u names: 0x, 0o, 0b; 0 when none.
BaseOf(u) ==
    IF Len(u) < 3 \/ u[1] # "0" THEN 0
    ELSE IF u[2] \in {"x", "X"} THEN 16
    ELSE IF u[2] \in {"o", "O"} THEN 8
    ELSE IF u[2] \in {"b", "B"} THEN 2
    ELSE 0

\* The base and the digits of a numeral u of base 2, 8 or 16; base 0 when u
\* is none.
NonDecimal(u) ==
    IF BaseOf(u) # 0 /\ \A i \in 3..Len(u) :
                           u[i] \in HexDigits /\ DigitVal(u[i]) < BaseOf(u)
    THEN [base |-> BaseOf(u), digits |-> SubSeq(u, 3, Len(u))]
    ELSE [base |-> 0, digits |-> <<>>]

NotANumber ==
    [numeric |-> FALSE, negative |-> FALSE, whole |-> <<0, 0>>, fraction |-> FALSE]

\* The double of the given sign nearest to the number of that whole part
\* and fraction.
DoubleOf(negative, d) ==
    [numeric |-> TRUE, negative |-> negative, whole |-> d.whole,
     fraction |-> d.fraction]

\* The number whose digits are all, with the point after the first point
\* digits (before them when point is not positive): its whole part, at most
\* twenty zeros added, and its fraction, as many zeros before it as the
\* point asks; a number below 10^-1100 is 0.
DecimalValue(negative, all, point) ==
    DoubleOf(negative,
        NearestDouble(
            WholeOf(IF point <= 0 THEN <<>>
                    ELSE IF point <= Len(all) THEN SubSeq(all, 1, point)
                    ELSE all \o [k \in 1..(IF point - Len(all) > 20 THEN 20
                                           ELSE point - Len(all)) |-> "0"],
                    10),
            IF point < 0 - 1100 THEN <<>>
            ELSE IF point <= 0
            THEN [k \in 1..(Len(all) - point) |->
                     IF k <= 0 - point THEN 0 ELSE DigitVal(all[k + point])]
            ELSE [k \in 1..(Len(all) - point) |-> DigitVal(all[k + point])]))

\* The exponent written in u[ez..e1], its leading zeros left out.
ExponentValue(u, ez, e1) ==
    IF e1 - ez + 1 > 4 THEN 10000 ELSE Numeral(u, ez, e1, 0, 0)

\* A decimal numeral u with whole part u[1..i1] and fraction u[f0..f1]:
\* an exponent may follow, e or E, an optional sign, and digits from e0 to
\* the end.
DecimalExponent(u, negative, i1, f0, f1, e0) ==
    IF ~(i1 >= 1 \/ f1 >= f0) THEN NotANumber
    ELSE IF f1 = Len(u)
    THEN DecimalValue(negative, SubSeq(u, 1, i1) \o SubSeq(u, f0, f1), i1)
    ELSE IF ~(u[f1 + 1] \in {"e", "E"}
              /\ RunEnd(u, e0, Digits) >= e0
              /\ RunEnd(u, e0, Digits) = Len(u))
    THEN NotANumber
    ELSE DecimalValue(negative,
                      SubSeq(u, 1, i1) \o SubSeq(u, f0, f1),
                      IF u[e0 - 1] = "-"
                      THEN i1 - ExponentValue(u, RunEnd(u, e0, {"0"}) + 1,
                                              RunEnd(u, e0, Digits))
                      ELSE i1 + ExponentValue(u, RunEnd(u, e0, {"0"}) + 1,
                                              RunEnd(u, e0, Digits)))

\* A decimal numeral u with whole part u[1..i1]: a "." and a fraction may
\* follow.
DecimalFraction(u, negative, i1, f) ==
    DecimalExponent(u, negative, i1, f.from, f.to,
                    IF f.to + 2 <= Len(u) /\ u[f.to + 2] \in {"-", "+"}
                    THEN f.to + 3 ELSE f.to + 2)

\* A numeral without its sign: Infinity, or digits, an optional fraction,
\* an optional exponent.
Decimal(u, negative, i1) ==
    IF u = <<"I", "n", "f", "i", "n", "i", "t", "y">>
    THEN [numeric |-> TRUE, negative |-> negative, whole |-> <<100000001, 0>>,
          fraction |-> FALSE]
    ELSE DecimalFraction(u, negative, i1,
                         IF i1 + 1 <= Len(u) /\ u[i1 + 1] = "."
                         THEN [from |-> i1 + 2, to |-> RunEnd(u, i1 + 2, Digits)]
                         ELSE [from |-> i1 + 1, to |-> i1])

\* The number that the string t without white space around it is: 0 for
\* the empty string, a numeral of base 2, 8 or 16 when nd has a base, a
\* decimal numeral with an optional sign otherwise.
Numeric(t, nd) ==
    IF t = <<>> THEN DoubleOf(FALSE, [whole |-> <<0, 0>>, fraction |-> FALSE])
    ELSE IF nd.base # 0
    THEN DoubleOf(FALSE, NearestDouble(WholeOf(nd.digits, nd.base), <<>>))
    ELSE IF t[1] \in {"-", "+"}
    THEN Decimal(SubSeq(t, 2, Len(t)), t[1] = "-", RunEnd(t, 2, Digits) - 1)
    ELSE Decimal(t, FALSE, RunEnd(t, 1, Digits))

\* Number(string): whether the string is a number, and the double it is, as
\* its sign, its whole part divided by the milliseconds of a day, and
\* whether it has a fraction.  A whole part of more than 100000000 days is
\* written 100000001 days.
NumberOf(s) == Numeric(Trim(s), NonDecimal(Trim(s)))

\* new Date(number): the whole part of the number is the time value, which
\* is at most 100000000 days from the epoch.
DateOfNumber(n) ==
    IF n.whole[1] > 100000000 \/ (n.whole[1] = 100000000 /\ n.whole[2] # 0)
    THEN NoDate
    ELSE IF ~n.negative THEN [ok |-> TRUE, value |-> n.whole]
    ELSE IF n.whole[2] = 0 THEN [ok |-> TRUE, value |-> <<0 - n.whole[1], 0>>]
    ELSE [ok |-> TRUE, value |-> <<0 - n.whole[1] - 1, 86400000 - n.whole[2]>>]

\* The string s is a count of milliseconds when Number(s) = n is 275761 or
\* more, or less than -271820; otherwise it is a date string, read in a
\* zone that is local seconds east of UTC.
CastNumberOrString(n, s, local) ==
    IF /\ n.numeric
       /\ IF n.negative
          THEN \/ n.whole[1] > 0
               \/ n.whole[2] > 271820
               \/ n.whole[2] = 271820 /\ n.fraction
          ELSE n.whole[1] > 0 \/ n.whole[2] >= 275761
    THEN DateOfNumber(n)
    ELSE DateParse(s, local)

\* The Date cast of a non-empty string.
CastDate(s, local) == CastNumberOrString(NumberOf(s), s, local)

\* The cast gives a date.
IsDateString(s, local) == CastDate(s, local).ok

\* The time value of the date the cast gives.
DateValue(s, local) == CastDate(s, local).value

(* --------------------------- request bodies ---------------------------- *)

\* A JavaScript object with no keys.
EmptyObj == [k \in {} |-> <<>>]

With(b, k, v) == [x \in (DOMAIN b) \cup {k} |-> IF x = k THEN v ELSE b[x]]
Without(b, k) == [x \in (DOMAIN b) \ {k} |-> b[x]]

sAl == <<"A", "l">>
sSpace == <<" ">>
sEmpty == <<>>
sMailA == <<"a", "@", "b", ".", "c">>
sMailAUpper == <<" ", "A", "@", "b", ".", "C">>
sMailB == <<"b", "@", "b", ".", "c">>
sMailBUpper == <<"B", "@", "b", ".", "c", " ">>
sNotMail == <<"a", "b">>
sE1 == <<"E", "1">>
sE1Padded == <<"E", "1", " ">>
sE2 == <<"E", "2">>
sDept == <<"D">>
sPos == <<"P">>
sDate == <<"2", "0", "2", "4", "-", "0", "1", "-", "0", "1">>
sNotDate == <<"1", "3">>
sLocalDate == <<"1", "/", "2", "/", "2", "0", "2", "4">>
sClientDate == <<"1", "9", "9", "9", "-", "1", "2", "-", "3", "1">>

Base ==
    [fullName |-> sAl, email |-> sMailA, employeeId |-> sE1,
     department |-> sDept, position |-> sPos, dateOfJoining |-> sDate]

\* Bodies that differ from Base in the e-mail or the employee id; one has
\* its date of joining in local time.
IdentityBodies ==
    { Base,
      With(Base, "email", sMailAUpper),
      With(Base, "employeeId", sE2),
      With(With(With(Base, "email", sMailBUpper), "employeeId", sE2),
           "dateOfJoining", sLocalDate),
      With(With(Base, "email", sMailB), "employeeId", sE1Padded) }

\* Bodies in which a field is absent or the empty string.
MissingBodies ==
    { Without(Base, "fullName"),
      With(Base, "email", sEmpty),
      Without(Base, "dateOfJoining"),
      Without(With(Base, "email", sNotMail), "position"),
      EmptyObj }

\* Bodies in which every field is present and some value is unacceptable
\* to the schema.
InvalidBodies ==
    { With(Base, "fullName", sSpace),
      With(Base, "email", sNotMail),
      With(Base, "dateOfJoining", sNotDate),
      With(With(Base, "email", sNotMail), "fullName", sSpace) }

\* Bodies that carry a registrationDate of the client's own.
ClientDateBodies ==
    { With(Base, "registrationDate", sClientDate) }

\* The bodies used where the clock runs: accepted, accepted with a client
\* registrationDate, one invalid, one incomplete.
ClockBodies ==
    {Base, With(Base, "email", sNotMail), Without(Base, "position")}
       \cup ClientDateBodies

\* The bodies used where the clock stands still.
Bodies == IdentityBodies \cup MissingBodies \cup InvalidBodies

(* ------------------------------ the schema ----------------------------- *)

Fields == {"fullName", "email", "employeeId", "department", "position", "dateOfJoining"}
StringPaths == {"fullName", "email", "employeeId", "department", "position"}

\* !x for a body field: undefined or the empty string.
Falsy(b, k) == k \notin DOMAIN b \/ b[k] = <<>>

\* The setters of a String path.
ApplySetters(k, v) == IF k = "email" THEN NormEmail(v) ELSE Trim(v)

RequiredMessage(k) ==
    CASE k = "fullName" -> "Full name is required."
      [] k = "email" -> "Email is required."
      [] k = "employeeId" -> "Employee ID is required."
      [] k = "department" -> "Department is required."
      [] k = "position" -> "Position is required."
      [] k = "dateOfJoining" -> "Date of joining is required."

InvalidEmailMessage == "Please enter a valid email address."
CastDateMessage == "Cast to date failed at path \"dateOfJoining\""

DatePaths == {"dateOfJoining", "registrationDate"}

\* Faulty variant: the whole body is handed to the constructor.
WholeBody(b) == b

\* const { fullName, email, employeeId, department, position, dateOfJoining }
\* = req.body: the six values the handler reads, and nothing else of the body.
Destructure(b) == [k \in Fields \cap DOMAIN b |-> b[k]]

\* The seconds east of UTC that the zone of the process can be at the local
\* time a date string names: the program sets no zone, so it is whatever the
\* host gives (here UTC, India, or the Pacific coast).
LocalOffsets == {0, 19800, 0 - 28800}

\* The document of new Employee(obj), cast being the Date cast of each Date
\* path that obj gives with a value: setters run on the String paths given,
\* a failed cast leaves the path unset and is remembered, registrationDate
\* takes its default Date.now when obj does not give it, and _id is fresh.
Construct(obj, now, id, cast) ==
    [doc |->
        [k \in {"_id"} \cup (StringPaths \cap DOMAIN obj)
               \cup {d \in DOMAIN cast : cast[d].ok}
               \cup ({"registrationDate"} \ DOMAIN obj) |->
            CASE k = "_id" -> id
              [] k \in DatePaths /\ k \in DOMAIN obj -> cast[k].value
              [] k = "registrationDate" -> TimeValue(now)
              [] OTHER -> ApplySetters(k, obj[k])],
     castErrors |-> {d \in DOMAIN cast : ~cast[d].ok}]

\* new Employee(obj) at time now in a process that is local seconds east of
\* UTC: a Date path given is cast, the empty string gives no value.
NewEmployee(obj, now, id, local) ==
    Construct(obj, now, id,
              [d \in {x \in DatePaths \cap DOMAIN obj : obj[x] # <<>>} |->
                  CastDate(obj[d], local)])

\* The first failing validator of a path, "" when the path is valid.
PathError(e, k) ==
    IF k \in e.castErrors THEN CastDateMessage
    ELSE IF k \notin DOMAIN e.doc THEN RequiredMessage(k)
    ELSE IF k \in StringPaths /\ e.doc[k] = <<>> THEN RequiredMessage(k)
    ELSE IF k = "email" /\ ~MatchesEmail(e.doc[k]) THEN InvalidEmailMessage
    ELSE ""

\* The errors of the ValidationError that validation before save raises.
ValidationErrors(e) ==
    [k \in {f \in Fields : PathError(e, f) # ""} |-> [message |-> PathError(e, k)]]

\* Faulty variant: a schema without `unique: true`.
NoUniqueIndex(st, d) == FALSE

\* The unique indexes on email and employeeId.
UniqueViolation(st, d) ==
    \E x \in st : x.email = d.email \/ x.employeeId = d.employeeId

\* Faulty variant: the filter is compared as submitted.
FindOneByEmailRaw(st, email) == {x \in st : x.email = email}

\* Employee.findOne({ email }): the filter is cast with the path's setters.
FindOneByEmail(st, email) == {x \in st : x.email = ApplySetters("email", email)}

\* Employee.findOne({ employeeId }).
FindOneById(st, id) == {x \in st : x.employeeId = ApplySetters("employeeId", id)}

(* ------------------------------ responses ------------------------------ *)

NoResponse == [status |-> 0, body |-> EmptyObj]

FormResponse == [status |-> 200, body |-> [file |-> "index.html"]]

MissingResponse ==
    [status |-> 400, body |-> [message |-> "All fields are required."]]

EmailInUseResponse ==
    [status |-> 400,
     body |-> [message |-> "An employee with this email already exists.",
               errors |-> [email |-> [msg |-> "Email already in use."]]]]

IdInUseResponse ==
    [status |-> 400,
     body |-> [message |-> "An employee with this Employee ID already exists.",
               errors |-> [employeeId |-> [msg |-> "Employee ID already in use."]]]]

\* Faulty variant: the saved document is echoed whole.
EchoDocument(saved) ==
    [status |-> 201,
     body |-> [message |-> "Employee registered successfully!", employee |-> saved]]

\* The 201 body: a projection of the saved document.
CreatedResponse(saved) ==
    [status |-> 201,
     body |-> [message |-> "Employee registered successfully!",
               employee |-> [id |-> saved["_id"],
                             fullName |-> saved.fullName,
                             email |-> saved.email,
                             employeeId |-> saved.employeeId]]]

ServerErrorResponse ==
    [status |-> 500,
     body |-> [message |-> "Server error during registration. Please try again later."]]

\* The errors thrown inside the handler.
ValidationError(errs) == [name |-> "ValidationError", errors |-> errs]
DuplicateKeyError == [name |-> "MongoError", errors |-> EmptyObj]
StoreUnreachableError == [name |-> "MongoNetworkError", errors |-> EmptyObj]

\* Faulty variant: only the e-mail violation is translated.
CatchEmailOnly(error) ==
    IF error.name = "ValidationError"
    THEN [status |-> 400,
          body |-> [message |-> "Validation failed. Please check your input.",
                    errors |-> [k \in (DOMAIN error.errors) \cap {"email"} |->
                                   [msg |-> error.errors[k].message]]]]
    ELSE [status |-> 500,
          body |-> [message |-> "Server error during registration. Please try again later."]]

\* Faulty variant: the 500 body carries the error's name.
CatchLeaky(error) ==
    IF error.name = "ValidationError"
    THEN [status |-> 400,
          body |-> [message |-> "Validation failed. Please check your input.",
                    errors |-> [k \in DOMAIN error.errors |->
                                   [msg |-> error.errors[k].message]]]]
    ELSE [status |-> 500,
          body |-> [message |-> "Server error during registration. Please try again later.",
                    error |-> error.name]]

\* The catch block: a ValidationError becomes a 400 with one entry per
\* rejected path, anything else a 500.
Catch(error) ==
    IF error.name = "ValidationError"
    THEN [status |-> 400,
          body |-> [message |-> "Validation failed. Please check your input.",
                    errors |-> [k \in DOMAIN error.errors |->
                                   [msg |-> error.errors[k].message]]]]
    ELSE ServerErrorResponse

(* -------------------------------- state -------------------------------- *)

VARIABLES
    conn,         \* the start-up connection: "pending", "connected", "failed"
    running,      \* the process has not exited
    listening,    \* the HTTP server accepts requests
    store,        \* the documents of the employees collection
    pc,           \* each request's position in its handler; at an await,
                  \* the operation issued ("findEmail", "findId", "save") or
                  \* what the store has made of it ("emailFound",
                  \* "emailNone", "idFound", "idNone", "inserted", "rejected")
    req,          \* each request in flight: its method and parsed body
    newEmployee,  \* the document a request has constructed and not yet saved
    res,          \* the response sent to each request
    logged,       \* the name of the error each request wrote to the console
    clock,        \* the server clock
    recvTime      \* the clock when each request in flight arrived

vars == <<conn, running, listening, store, pc, req, newEmployee, res, logged,
          clock, recvTime>>

Reqs == 1..NumReqs

NoRequest == [method |-> "", body |-> EmptyObj]
NoDocument == [doc |-> EmptyObj, castErrors |-> {}]

\* The state once the top-level script has run: connect has been called and
\* is pending, listen has been called, no request has arrived.
Init ==
    /\ conn = "pending"
    /\ running = TRUE
    /\ listening = TRUE
    /\ store = {}
    /\ pc = [r \in Reqs |-> "idle"]
    /\ req = [r \in Reqs |-> NoRequest]
    /\ newEmployee = [r \in Reqs |-> NoDocument]
    /\ res = [r \in Reqs |-> NoResponse]
    /\ logged = [r \in Reqs |-> ""]
    /\ clock = 0
    /\ recvTime = [r \in Reqs |-> 0]

(* ------------------------------- actions ------------------------------- *)

\* Faulty variant: dateOfJoining is left out of the presence check.
AnyMissingButDate(b) == \E k \in Fields \ {"dateOfJoining"} : Falsy(b, k)

\* !fullName || !email || !employeeId || !department || !position ||
\* !dateOfJoining
AnyMissing(b) == \E k \in Fields : Falsy(b, k)

\* newEmployee.save(): validation first, then the insert under the unique
\* indexes.  Gives the error thrown (name "" when none) and the collection
\* afterwards.
SaveOutcome(st, e) ==
    IF DOMAIN ValidationErrors(e) # {}
    THEN [error |-> ValidationError(ValidationErrors(e)), store |-> st]
    ELSE IF UniqueViolation(st, e.doc)
    THEN [error |-> DuplicateKeyError, store |-> st]
    ELSE [error |-> [name |-> "", errors |-> EmptyObj], store |-> st \cup {e.doc}]

\* res.status(..).json(..) ends request r.
Respond(r, response) ==
    /\ res' = [res EXCEPT ![r] = response]
    /\ pc' = [pc EXCEPT ![r] = "done"]
    /\ req' = [req EXCEPT ![r] = NoRequest]
    /\ newEmployee' = [newEmployee EXCEPT ![r] = NoDocument]
    /\ recvTime' = [recvTime EXCEPT ![r] = 0]

\* A request reaches the listening server and its body is parsed.  Slots are
\* filled in index order.
Arrive(r, m, b) ==
    /\ running /\ listening
    /\ pc[r] = "idle"
    /\ \A q \in Reqs : q < r => pc[q] # "idle"
    /\ pc' = [pc EXCEPT ![r] = "received"]
    /\ req' = [req EXCEPT ![r] = [method |-> m, body |-> b]]
    /\ recvTime' = [recvTime EXCEPT ![r] = clock]
    /\ UNCHANGED <<conn, running, listening, store, newEmployee, res, logged, clock>>

\* GET /: the form document is sent.
GetRoot(r) ==
    /\ running
    /\ pc[r] = "received"
    /\ req[r].method = "GET"
    /\ Respond(r, FormResponse)
    /\ UNCHANGED <<conn, running, listening, store, logged, clock>>

\* POST /register up to its first await: the presence check, then the
\* findOne by email is issued.
Register(r) ==
    /\ running
    /\ pc[r] = "received"
    /\ req[r].method = "POST"
    /\ IF AnyMissing(req[r].body)
       THEN Respond(r, MissingResponse)
       ELSE /\ pc' = [pc EXCEPT ![r] = "findEmail"]
            /\ UNCHANGED <<req, newEmployee, res, recvTime>>
    /\ UNCHANGED <<conn, running, listening, store, logged, clock>>

\* The store evaluates the findOne by email of request r, the handler
\* suspended at its await: a record is found or none is.  Operations wait
\* for the connection.
LookupByEmail(r) ==
    /\ running
    /\ conn = "connected"
    /\ pc[r] = "findEmail"
    /\ pc' = [pc EXCEPT ![r] = IF FindOneByEmail(store, req[r].body.email) # {}
                               THEN "emailFound" ELSE "emailNone"]
    /\ UNCHANGED <<conn, running, listening, store, req, newEmployee, res, logged,
                   clock, recvTime>>

\* The findOne by email resolves and the handler resumes with what the
\* store found when it evaluated the lookup: a duplicate ends the request,
\* otherwise the findOne by employeeId is issued.
FindByEmail(r) ==
    /\ running
    /\ pc[r] \in {"emailFound", "emailNone"}
    /\ IF pc[r] = "emailFound"
       THEN Respond(r, EmailInUseResponse)
       ELSE /\ pc' = [pc EXCEPT ![r] = "findId"]
            /\ UNCHANGED <<req, newEmployee, res, recvTime>>
    /\ UNCHANGED <<conn, running, listening, store, logged, clock>>

\* The store evaluates the findOne by employeeId of request r, the handler
\* suspended at its await.
LookupById(r) ==
    /\ running
    /\ conn = "connected"
    /\ pc[r] = "findId"
    /\ pc' = [pc EXCEPT ![r] = IF FindOneById(store, req[r].body.employeeId) # {}
                               THEN "idFound" ELSE "idNone"]
    /\ UNCHANGED <<conn, running, listening, store, req, newEmployee, res, logged,
                   clock, recvTime>>

\* The findOne by employeeId resolves and the handler resumes with what the
\* store found when it evaluated the lookup: a duplicate ends the request,
\* otherwise the document is constructed and its save is issued.
FindById(r) ==
    /\ running
    /\ pc[r] \in {"idFound", "idNone"}
    /\ IF pc[r] = "idFound"
       THEN Respond(r, IdInUseResponse)
       ELSE /\ pc' = [pc EXCEPT ![r] = "save"]
            /\ \E local \in LocalOffsets :
                  newEmployee' = [newEmployee EXCEPT
                                     ![r] = NewEmployee(Destructure(req[r].body),
                                                        clock, r, local)]
            /\ UNCHANGED <<req, res, recvTime>>
    /\ UNCHANGED <<conn, running, listening, store, logged, clock>>

\* The insert of a pending save reaches the store, the handler still
\* suspended at its await: the store adds the document, or refuses it under
\* a unique index.  A document that fails validation is never sent.
Insert(r) ==
    /\ running
    /\ conn = "connected"
    /\ pc[r] = "save"
    /\ DOMAIN ValidationErrors(newEmployee[r]) = {}
    /\ store' = SaveOutcome(store, newEmployee[r]).store
    /\ pc' = [pc EXCEPT ![r] = IF SaveOutcome(store, newEmployee[r]).error.name = ""
                               THEN "inserted" ELSE "rejected"]
    /\ UNCHANGED <<conn, running, listening, req, newEmployee, res, logged, clock,
                   recvTime>>

\* The save settles and the handler resumes: 201 with the projection once
\* the store has acknowledged the insert, the catch block when the store
\* refused it or when validation failed.
Save(r) ==
    /\ running
    /\ \/ /\ pc[r] = "inserted"
          /\ logged' = logged
          /\ Respond(r, CreatedResponse(newEmployee[r].doc))
       \/ /\ pc[r] = "rejected"
          /\ logged' = [logged EXCEPT ![r] = DuplicateKeyError.name]
          /\ Respond(r, Catch(DuplicateKeyError))
       \/ /\ pc[r] = "save"
          /\ DOMAIN ValidationErrors(newEmployee[r]) # {}
          /\ logged' = [logged EXCEPT
                           ![r] = SaveOutcome(store, newEmployee[r]).error.name]
          /\ Respond(r, Catch(SaveOutcome(store, newEmployee[r]).error))
    /\ UNCHANGED <<conn, running, listening, store, clock>>

\* A store operation in flight fails (store unreachable, buffering timed
\* out, connection lost before the answer arrives): the await throws and the
\* catch block answers.  An insert the store has already applied stays.
StoreFails(r) ==
    /\ running
    /\ \/ pc[r] \in {"findEmail", "emailFound", "emailNone", "findId", "idFound",
                     "idNone", "inserted", "rejected"}
       \/ pc[r] = "save" /\ DOMAIN ValidationErrors(newEmployee[r]) = {}
    /\ logged' = [logged EXCEPT ![r] = StoreUnreachableError.name]
    /\ Respond(r, Catch(StoreUnreachableError))
    /\ UNCHANGED <<conn, running, listening, store, clock>>

\* mongoose.connect resolves.
ConnectOk ==
    /\ running
    /\ conn = "pending"
    /\ conn' = "connected"
    /\ UNCHANGED <<running, listening, store, pc, req, newEmployee, res, logged,
                   clock, recvTime>>

\* mongoose.connect rejects: the catch callback calls process.exit(1).
ConnectFail ==
    /\ running
    /\ conn = "pending"
    /\ conn' = "failed"
    /\ running' = FALSE
    /\ listening' = FALSE
    /\ UNCHANGED <<store, pc, req, newEmployee, res, logged, clock, recvTime>>

\* Time passes.
Tick ==
    /\ running
    /\ clock < MaxClock
    /\ clock' = clock + 1
    /\ UNCHANGED <<conn, running, listening, store, pc, req, newEmployee, res,
                   logged, recvTime>>

\* The steps of the process other than the arrival of a request and the
\* passing of time.
Step ==
    \/ \E r \in Reqs : GetRoot(r)
    \/ \E r \in Reqs : Register(r)
    \/ \E r \in Reqs : LookupByEmail(r)
    \/ \E r \in Reqs : FindByEmail(r)
    \/ \E r \in Reqs : LookupById(r)
    \/ \E r \in Reqs : FindById(r)
    \/ \E r \in Reqs : Insert(r)
    \/ \E r \in Reqs : Save(r)
    \/ \E r \in Reqs : StoreFails(r)
    \/ ConnectOk
    \/ ConnectFail

\* Every body, at one instant of the clock.
Next ==
    \/ \E r \in Reqs : \E b \in Bodies : Arrive(r, "POST", b)
    \/ \E r \in Reqs : Arrive(r, "GET", EmptyObj)
    \/ Step

Spec == Init /\ [][Next]_vars

\* The bodies that matter to the timestamp, while time passes.
NextClock ==
    \/ \E r \in Reqs : \E b \in ClockBodies : Arrive(r, "POST", b)
    \/ \E r \in Reqs : Arrive(r, "GET", EmptyObj)
    \/ Step
    \/ Tick

SpecClock == Init /\ [][NextClock]_vars

TypeOK ==
    /\ conn \in {"pending", "connected", "failed"}
    /\ running \in BOOLEAN
    /\ listening \in BOOLEAN
    /\ \A r \in Reqs :
          /\ pc[r] \in {"idle", "received", "findEmail", "emailFound", "emailNone",
                       "findId", "idFound", "idNone", "save", "inserted",
                       "rejected", "done"}
          /\ res[r].status \in {0, 200, 201, 400, 500}
    /\ clock \in 0..MaxClock

(* ------------------------------ properties ----------------------------- *)

\* Request r leaves position p in this step.
Leaves(r, p) == pc[r] = p /\ pc'[r] # p

\* Request r ends in this step.
Ends(r) == pc[r] # "done" /\ pc'[r] = "done"

\* C1: no two stored records have the same email (after trim and
\* lowercasing) or the same employeeId (after trim), however the requests
\* interleave at their await points.
C1_UniqueEmailAndEmployeeId ==
    \A x \in store : \A y \in store :
        (NormEmail(x.email) = NormEmail(y.email)
            \/ Trim(x.employeeId) = Trim(y.employeeId)) => x = y

\* C1 witness: a request passed both pre-checks and was then refused by the
\* unique index, another having inserted first.
C1_Witness ==
    \E r1 \in Reqs : \E r2 \in Reqs :
        /\ res[r1].status = 201
        /\ logged[r2] = "MongoError"
        /\ store # {}

\* C2: a request whose insert is refused by the unique index after it passed
\* both pre-checks is answered 400 with a per-field error map, never 500.
C2_RaceAnsweredAsConflict ==
    \A r \in Reqs :
        logged[r] = "MongoError" =>
            /\ res[r].status = 400
            /\ "errors" \in DOMAIN res[r].body

\* C3: when the start-up connection fails, no request has been received or
\* handled by the process before it exits.
C3_NoRequestWhenConnectFails ==
    conn = "failed" => \A r \in Reqs : pc[r] = "idle"

\* C4: a POST /register with one of the six fields absent or empty is
\* answered 400 with the generic message and no errors map, issues no store
\* operation and creates no record.
C4_MissingFieldRejected ==
    [][\A r \in Reqs :
          (/\ Leaves(r, "received")
           /\ req[r].method = "POST"
           /\ \E k \in Fields :
                 k \notin DOMAIN req[r].body \/ Len(req[r].body[k]) = 0)
          => /\ pc'[r] = "done"
             /\ res'[r] = [status |-> 400,
                           body |-> [message |-> "All fields are required."]]
             /\ store' = store]_vars

\* C4 witness: a request was answered with the generic message.
C4_Witness ==
    \E r \in Reqs :
        /\ pc[r] = "done"
        /\ res[r].status = 400
        /\ res[r].body = [message |-> "All fields are required."]

\* The store holds a record with the email that request r submitted, after
\* the store's normalization.
HoldsEmail(r) == \E x \in store : x.email = NormEmail(req[r].body.email)

\* The store holds a record with the employeeId that request r submitted.
HoldsId(r) == \E x \in store : x.employeeId = Trim(req[r].body.employeeId)

\* Request r is answered 400 with an error map of exactly the key k, and
\* the store stays as it is.
ConflictAnswer(r, k) ==
    /\ pc'[r] = "done"
    /\ res'[r].status = 400
    /\ DOMAIN res'[r].body = {"message", "errors"}
    /\ DOMAIN res'[r].body.errors = {k}
    /\ store' = store
    /\ \A x \in store' : x["_id"] # r

\* C5 as stated: for a submission with all six fields, if the store holds a
\* record with the submitted email (normalized) when the e-mail lookup is
\* made, the response is 400 with exactly the key email, whatever the
\* employeeId; otherwise, if the store holds the submitted employeeId when
\* that lookup is made, the response is 400 with exactly the key
\* employeeId; no record is created.
C5_DuplicateAlwaysRejected ==
    [][\A r \in Reqs :
          /\ (Leaves(r, "findEmail") /\ HoldsEmail(r)) => pc'[r] = "emailFound"
          /\ Leaves(r, "emailFound")
                => /\ ConflictAnswer(r, "email")
                   /\ res'[r].body.errors.email = [msg |-> "Email already in use."]
          /\ (Leaves(r, "findId") /\ HoldsId(r)) => pc'[r] = "idFound"
          /\ Leaves(r, "idFound") => ConflictAnswer(r, "employeeId")]_vars

\* C5, amended: the same for the lookups that the store answers.  A lookup
\* is evaluated against the store as it is at that moment, and finds the
\* record exactly when the store holds it; the handler, resuming with a
\* record found, answers 400 with exactly the key email (e-mail lookup,
\* whatever the employeeId) or exactly the key employeeId (employeeId
\* lookup, made only after the e-mail lookup found nothing), and creates no
\* record, whatever was stored in between.  A lookup that fails is answered
\* 500.
C5_DuplicateRejected ==
    [][\A r \in Reqs :
          /\ (Leaves(r, "findEmail") /\ logged'[r] = "")
                => pc'[r] = IF HoldsEmail(r) THEN "emailFound" ELSE "emailNone"
          /\ (Leaves(r, "emailFound") /\ logged'[r] = "")
                => /\ ConflictAnswer(r, "email")
                   /\ res'[r].body.errors.email = [msg |-> "Email already in use."]
          /\ (Leaves(r, "emailNone") /\ logged'[r] = "") => pc'[r] = "findId"
          /\ (Leaves(r, "findId") /\ logged'[r] = "")
                => pc'[r] = IF HoldsId(r) THEN "idFound" ELSE "idNone"
          /\ (Leaves(r, "idFound") /\ logged'[r] = "")
                => /\ ConflictAnswer(r, "employeeId")
                   /\ res'[r].body.errors.employeeId
                         = [msg |-> "Employee ID already in use."]
          /\ (Leaves(r, "findEmail") \/ Leaves(r, "emailFound")
                \/ Leaves(r, "emailNone") \/ Leaves(r, "findId")
                \/ Leaves(r, "idFound")) /\ logged'[r] # ""
                => /\ pc'[r] = "done"
                   /\ res'[r].status = 500
                   /\ store' = store]_vars

\* C5 witness: a record was accepted and a later submission of its email was
\* answered with the email conflict.
C5_Witness ==
    \E r1 \in Reqs : \E r2 \in Reqs :
        /\ res[r1].status = 201
        /\ res[r2].status = 400
        /\ "errors" \in DOMAIN res[r2].body
        /\ DOMAIN res[r2].body.errors = {"email"}
        /\ res[r2].body.errors.email.msg = "Email already in use."

\* C6: the store only grows; a step that changes it adds exactly one record,
\* the document of a request with all six fields present whose save was
\* issued after both pre-checks; a request that ends with 400 or 500 has
\* left the store as it was (no record of its own is in it); a 201 is sent
\* only with the request's record in the store.
C6_StoreOnlyGrows ==
    [][/\ store \subseteq store'
       /\ store' # store =>
             \E r \in Reqs :
                /\ pc[r] = "save" /\ pc'[r] = "inserted"
                /\ \A k \in Fields :
                      k \in DOMAIN req[r].body /\ Len(req[r].body[k]) > 0
                /\ newEmployee[r].doc \notin store
                /\ store' = store \cup {newEmployee[r].doc}
       /\ \A r \in Reqs :
             /\ (Ends(r) /\ res'[r].status \in {400, 500}) =>
                   /\ store' = store
                   /\ \A x \in store' : x["_id"] # r
             /\ (Ends(r) /\ res'[r].status = 201) =>
                   \E x \in store' : x["_id"] = res'[r].body.employee.id]_vars

\* C7: a 201 response carries an employee object of exactly the keys id,
\* fullName, email, employeeId, with the values of the stored record (email
\* trimmed and lowercased, id the record's _id).
C7_Projection ==
    [][\A r \in Reqs :
          (Ends(r) /\ res'[r].status = 201)
          => /\ DOMAIN res'[r].body = {"message", "employee"}
             /\ DOMAIN res'[r].body.employee = {"id", "fullName", "email", "employeeId"}
             /\ res'[r].body.employee.email = ToLower(Trim(req[r].body.email))
             /\ \E x \in store' :
                   /\ x["_id"] = res'[r].body.employee.id
                   /\ x.fullName = res'[r].body.employee.fullName
                   /\ x.email = res'[r].body.employee.email
                   /\ x.employeeId = res'[r].body.employee.employeeId]_vars

\* C7 witness: a submission whose email was padded and in capitals was
\* accepted and answered with the normalized email.
C7_Witness ==
    \E r \in Reqs :
        /\ res[r].status = 201
        /\ res[r].body.employee.email = sMailB
        /\ res[r].body.employee.employeeId = sE2
        /\ \E x \in store : x["_id"] = res[r].body.employee.id /\ x.email = sMailB

\* C8: a document that the schema rejects at save is answered 400 with the
\* validation message and an errors map whose keys are exactly the rejected
\* fields, each with that field's message; no record is created.
C8_ValidationErrorsTranslated ==
    [][\A r \in Reqs :
          (/\ Leaves(r, "save")
           /\ \E f \in Fields : PathError(newEmployee[r], f) # "")
          => /\ pc'[r] = "done"
             /\ res'[r].status = 400
             /\ DOMAIN res'[r].body = {"message", "errors"}
             /\ res'[r].body.message = "Validation failed. Please check your input."
             /\ DOMAIN res'[r].body.errors
                   = {f \in Fields : PathError(newEmployee[r], f) # ""}
             /\ \A f \in DOMAIN res'[r].body.errors :
                   res'[r].body.errors[f] = [msg |-> PathError(newEmployee[r], f)]
             /\ store' = store]_vars

\* C8 witness: a submission with a malformed email and a blank-padded name
\* was answered with both fields in the errors map.
C8_Witness ==
    \E r \in Reqs :
        /\ res[r].status = 400
        /\ "errors" \in DOMAIN res[r].body
        /\ DOMAIN res[r].body.errors = {"email", "fullName"}
        /\ res[r].body.errors.email.msg = "Please enter a valid email address."
        /\ res[r].body.errors.fullName.msg = "Full name is required."

\* C9: a failure in the handler that is not a ValidationError is answered
\* 500 with the fixed message and nothing else; a request has no response
\* until it ends, ends with one of 201, 400, 500, and its response is never
\* replaced.
C9_OtherFailuresAre500 ==
    [][\A r \in Reqs :
          /\ (Ends(r) /\ logged'[r] \notin {"", "ValidationError"})
             => res'[r] = [status |-> 500,
                           body |-> [message |->
                              "Server error during registration. Please try again later."]]
          /\ (Ends(r) /\ req[r].method = "POST") => res'[r].status \in {201, 400, 500}
          /\ pc'[r] # "done" => res'[r].status = 0
          /\ pc[r] = "done" => (pc'[r] = "done" /\ res'[r] = res[r])]_vars

\* C9 witness: one request was answered 500 after the store could not be
\* reached, another has ended with 201.
C9_Witness ==
    \E r1 \in Reqs : \E r2 \in Reqs :
        /\ logged[r1] = "MongoNetworkError" /\ res[r1].status = 500
        /\ pc[r2] = "done" /\ res[r2].status = 201

\* C10: the registrationDate of a document is the server clock when the
\* document is constructed, not earlier than the request's arrival, and what
\* a body without any registrationDate of its own would have given; it is
\* the one inserted, and a stored record never changes.
C10_ServerTimestamp ==
    [][/\ \A r \in Reqs :
             /\ (pc[r] = "idNone" /\ pc'[r] = "save")
                => /\ newEmployee'[r].doc.registrationDate = <<0, clock>>
                   /\ newEmployee'[r].doc.registrationDate[2] >= recvTime[r]
                   /\ \E local \in LocalOffsets :
                         newEmployee'[r]
                            = NewEmployee([k \in Fields |-> req[r].body[k]],
                                          clock, r, local)
             /\ (pc[r] \in {"save", "inserted", "rejected"} /\ pc'[r] # "done")
                => newEmployee'[r] = newEmployee[r]
       /\ \A x \in store' \ store :
             \E r \in Reqs : pc[r] = "save" /\ x = newEmployee[r].doc
       /\ store \subseteq store']_vars

\* C10 witness: a request that carried a registrationDate of its own and
\* arrived at time 0 has constructed, at server time 1, a document stamped 1.
C10_Witness ==
    \E r \in Reqs :
        /\ pc[r] = "save"
        /\ "registrationDate" \in DOMAIN req[r].body
        /\ recvTime[r] = 0
        /\ newEmployee[r].doc.registrationDate = <<0, 1>>

====
